---- MODULE Spec2Model ----
(***************************************************************************)
(* S3PassthroughDjangoNodeStorage (src/sentry_nodestore_s3/backend.py):    *)
(* a node store that keeps payloads in an S3 bucket, the id -> timestamp   *)
(* index in the PostgreSQL table nodestore_node, and optionally passes     *)
(* operations through to the Django node store it inherits from.           *)
(*                                                                         *)
(* Under Spec one caller issues the public operations one after another;   *)
(* each operation is one action, its statements composed in the order of   *)
(* the code over a record of the stores (the "world"), and the clock may   *)
(* advance between the two times the write path reads it.                  *)
(***************************************************************************)
EXTENDS Integers, Sequences, FiniteSets, TLC

(***************************************************************************)
(* Bounds of the model.                                                    *)
(***************************************************************************)
MaxLen == 3         \* longest payload, in bytes
MaxClock == 1       \* last instant the clock reaches
MaxIds == 2         \* longest id_list given to delete_multi
MaxOps == 2         \* calls issued in one behaviour

Ids == {"a", "b"}
ByteVals == {0}

RECURSIVE SeqsUpTo(_, _)
SeqsUpTo(S, n) ==
    IF n = 0 THEN {<<>>}
    ELSE LET shorter == SeqsUpTo(S, n - 1)
         IN shorter \cup {Append(s, x) : s \in shorter, x \in S}

Payloads == SeqsUpTo(ByteVals, MaxLen)
IdLists == SeqsUpTo(Ids, MaxIds)
Instants == 0..MaxClock

(***************************************************************************)
(* Python values: None and the optional value, partial maps (table rows,   *)
(* bucket objects), truthiness.                                            *)
(***************************************************************************)
None == <<>>
Some(x) == <<x>>

Put(f, k, v) == [x \in DOMAIN f \cup {k} |-> IF x = k THEN v ELSE f[x]]
Remove(f, k) == [x \in DOMAIN f \ {k} |-> f[x]]
EmptyMap == [x \in {} |-> None]

\* bool() of an optional bytes value: None and b"" are false
Truthy(v) == v # None /\ v[1] # <<>>

(***************************************************************************)
(* datetime and strftime("%Y/%m/%d"). A datetime is an instant of the      *)
(* clock, which counts half days: instant 0 is noon of Epoch, instant 1    *)
(* the midnight that follows.                                              *)
(***************************************************************************)
Epoch == [year |-> 2023, month |-> 12, day |-> 31]

IsLeap(y) == (y % 4 = 0 /\ y % 100 # 0) \/ y % 400 = 0

DaysInMonth(y, m) ==
    IF m = 2 THEN (IF IsLeap(y) THEN 29 ELSE 28)
    ELSE IF m \in {4, 6, 9, 11} THEN 30 ELSE 31

NextDate(d) ==
    IF d.day < DaysInMonth(d.year, d.month)
    THEN [d EXCEPT !.day = @ + 1]
    ELSE IF d.month < 12
    THEN [year |-> d.year, month |-> d.month + 1, day |-> 1]
    ELSE [year |-> d.year + 1, month |-> 1, day |-> 1]

RECURSIVE AddDays(_, _)
AddDays(d, n) == IF n = 0 THEN d ELSE AddDays(NextDate(d), n - 1)

DayOf(timestamp) == (timestamp + 1) \div 2
DateOf(timestamp) == AddDays(Epoch, DayOf(timestamp))

Pad2(n) == IF n < 10 THEN "0" \o ToString(n) ELSE ToString(n)

strftime(timestamp) ==
    LET d == DateOf(timestamp)
    IN ToString(d.year) \o "/" \o Pad2(d.month) \o "/" \o Pad2(d.day)

\* strftime of every instant the clock reaches
date_prefix == [timestamp \in Instants |-> strftime(timestamp)]

construct_s3_key(bucket_path, id, timestamp) ==
    IF bucket_path # ""
    THEN bucket_path \o "/" \o date_prefix[timestamp] \o "/" \o id
    ELSE date_prefix[timestamp] \o "/" \o id

(***************************************************************************)
(* compression_strategies: the one codec, "zstd". The frame is a magic     *)
(* byte followed by the run-length encoding of the input, so that short    *)
(* inputs grow and long runs shrink, as they do under zstd.                *)
(***************************************************************************)
ZstdMagic == <<40>>

RECURSIVE RunLength(_)
RunLength(s) ==
    IF s = <<>> THEN <<>>
    ELSE LET b == Head(s)
             RECURSIVE Run(_)
             Run(t) == IF t # <<>> /\ Head(t) = b THEN 1 + Run(Tail(t)) ELSE 0
             n == Run(s)
         IN <<n, b>> \o RunLength(SubSeq(s, n + 1, Len(s)))

RECURSIVE Expand(_)
Expand(s) ==
    IF Len(s) < 2 THEN <<>>
    ELSE [i \in 1..s[1] |-> s[2]] \o Expand(SubSeq(s, 3, Len(s)))

ZstdEncode(data) == ZstdMagic \o RunLength(data)
ZstdDecode(data) == Expand(Tail(data))

compression_strategies == {"zstd"}

\* backend.py 112-120: the bytes and the ContentEncoding that are stored
WorthItStrict(data, compressed_data) == Len(compressed_data) < Len(data)
WorthIt(data, compressed_data) == Len(compressed_data) <= Len(data)

Encoded(compression, data) ==
    IF compression # None /\ WorthIt(data, ZstdEncode(data))
    THEN [Body |-> ZstdEncode(data), ContentEncoding |-> compression[1]]
    ELSE [Body |-> data, ContentEncoding |-> ""]

\* what a backend that looked at no tag would return
DecodedAsStored(obj) == obj.Body

\* backend.py 157-159: the bytes returned for a fetched object
Decoded(obj) ==
    IF obj.ContentEncoding \in compression_strategies
    THEN ZstdDecode(obj.Body)
    ELSE obj.Body

(***************************************************************************)
(* The world a handler runs in: the index table nodestore_node             *)
(* (id -> timestamp), the S3 bucket (key -> [Body, ContentEncoding]), the  *)
(* rows of the parent class's Django node store (the secondary backend),   *)
(* the calls made so far to the collaborators, the exception raised (""    *)
(* while none is) and the value being returned.                            *)
(***************************************************************************)
Event(call, args) == [call |-> call, args |-> args]

World(rows, objects, legacy) ==
    [nodestore_node |-> rows, bucket |-> objects, secondary |-> legacy,
     trace |-> <<>>, raised |-> "", value |-> None]

Called(w, call, args) == [w EXCEPT !.trace = Append(@, Event(call, args))]
Raise(w, exception) == [w EXCEPT !.raised = exception]

(***************************************************************************)
(* The statements on the index table.                                      *)
(***************************************************************************)
insert_overwrite(rows, id, timestamp) == Put(rows, id, timestamp)
insert_on_conflict_do_nothing(rows, id, timestamp) ==
    IF id \in DOMAIN rows THEN rows ELSE Put(rows, id, timestamp)

insert_id_and_timestamp(w, id, timestamp) ==
    Called([w EXCEPT !.nodestore_node = insert_on_conflict_do_nothing(@, id, timestamp)],
           "insert_id_and_timestamp", <<id>>)

delete_every_row(rows, id) == EmptyMap
delete_where_id(rows, id) == Remove(rows, id)

delete_id(w, id) ==
    Called([w EXCEPT !.nodestore_node = delete_where_id(@, id)], "delete_id", <<id>>)

fetch_timestamp(rows, id) == IF id \in DOMAIN rows THEN Some(rows[id]) ELSE None

(***************************************************************************)
(* The requests to S3.                                                     *)
(***************************************************************************)
put_object_if_absent(w, key, obj) ==
    Called([w EXCEPT !.bucket = IF key \in DOMAIN @ THEN @ ELSE Put(@, key, obj)],
           "put_object", <<key>>)

put_object(w, key, obj) ==
    Called([w EXCEPT !.bucket = Put(@, key, obj)], "put_object", <<key>>)

\* a put_object the store refuses: the client raises and nothing is stored;
\* __write_to_bucket has no handler around the call
put_object_retried(w, key, obj) ==
    put_object(Called(w, "put_object", <<key>>), key, obj)

put_object_raises(w, key, obj) ==
    Raise(Called(w, "put_object", <<key>>), "ClientError")

delete_object(w, key) ==
    Called([w EXCEPT !.bucket = Remove(@, key)], "delete_object", <<key>>)

\* get_object: the object, or None for NoSuchKey
get_object(objects, key) == IF key \in DOMAIN objects THEN Some(objects[key]) ELSE None

(***************************************************************************)
(* The parent class (DjangoNodeStorage) and the cache, as the backend      *)
(* calls them.                                                             *)
(***************************************************************************)
super_set_bytes(w, id, data) ==
    Called([w EXCEPT !.secondary = Put(@, id, data)], "super._set_bytes", <<id>>)

super_get_bytes_and_evict(w, id) ==
    Called([w EXCEPT !.value = IF id \in DOMAIN w.secondary
                               THEN Some(w.secondary[id]) ELSE None,
                     !.secondary = Remove(@, id)],
           "super._get_bytes", <<id>>)

super_get_bytes(w, id) ==
    Called([w EXCEPT !.value = IF id \in DOMAIN w.secondary
                               THEN Some(w.secondary[id]) ELSE None],
           "super._get_bytes", <<id>>)

super_delete(w, id) ==
    Called([w EXCEPT !.secondary = Remove(@, id)], "super.delete", <<id>>)

super_delete_multi(w, id_list) ==
    Called([w EXCEPT !.secondary =
                [i \in DOMAIN @ \ {id_list[n] : n \in DOMAIN id_list} |-> @[i]]],
           "super.delete_multi", id_list)

\* the rows the parent's cleanup keeps are the parent's business
super_cleanup(w, cutoff_timestamp, kept) ==
    Called([w EXCEPT !.secondary = [i \in DOMAIN @ \cap kept |-> @[i]]],
           "super.cleanup", <<cutoff_timestamp>>)

delete_cache_item(w, id) == Called(w, "_delete_cache_item", <<id>>)
delete_cache_items(w, id_list) == Called(w, "_delete_cache_items", id_list)

(***************************************************************************)
(* The private methods.                                                    *)
(***************************************************************************)
\* now1 is utcnow() inside insert_id_and_timestamp, now2 utcnow() for the key
write_to_bucket(w, cfg, id, data, now1, now2) ==
    LET w1 == insert_id_and_timestamp(w, id, now1)
        obj == Encoded(cfg.compression, data)
        key == construct_s3_key(cfg.bucket_path, id, now2)
    IN put_object(w1, key, obj)

delete_from_bucket(w, cfg, id) ==
    LET w1 == delete_id(w, id)
        timestamp == fetch_timestamp(w1.nodestore_node, id)
        w2 == Called(w1, "fetch_timestamp", <<id>>)
    IN IF timestamp = None
       THEN Raise(w2, "ValueError")
       ELSE delete_object(w2, construct_s3_key(cfg.bucket_path, id, timestamp[1]))

read_from_bucket(w, cfg, id) ==
    LET timestamp == fetch_timestamp(w.nodestore_node, id)
        w1 == Called(w, "fetch_timestamp", <<id>>)
    IN IF timestamp = None
       THEN Raise(w1, "ValueError")
       ELSE LET key == construct_s3_key(cfg.bucket_path, id, timestamp[1])
                obj == get_object(w1.bucket, key)
                w2 == Called(w1, "get_object", <<key>>)
            IN [w2 EXCEPT !.value = IF obj = None THEN None ELSE Some(Decoded(obj[1]))]

(***************************************************************************)
(* The public operations.                                                  *)
(***************************************************************************)
delete_through_last(w, cfg, id) ==
    LET w2 == delete_from_bucket(w, cfg, id)
    IN IF w2.raised # "" THEN w2
       ELSE delete_cache_item(IF cfg.delete_through THEN super_delete(w2, id) ELSE w2, id)

delete_always_through(w, cfg, id) ==
    LET w2 == delete_from_bucket(super_delete(w, id), cfg, id)
    IN IF w2.raised # "" THEN w2 ELSE delete_cache_item(w2, id)

delete(w, cfg, id) ==
    LET w1 == IF cfg.delete_through THEN super_delete(w, id) ELSE w
        w2 == delete_from_bucket(w1, cfg, id)
    IN IF w2.raised # "" THEN w2 ELSE delete_cache_item(w2, id)

get_bytes_primary_only(w, cfg, id) == read_from_bucket(w, cfg, id)

get_bytes(w, cfg, id) ==
    LET r == read_from_bucket(w, cfg, id)
    IN IF cfg.read_through /\ r.raised = "" /\ ~Truthy(r.value)
       THEN super_get_bytes(r, id)
       ELSE r

set_bytes(w, cfg, id, data, now1, now2) ==
    LET w1 == IF cfg.write_through THEN super_set_bytes(w, id, data) ELSE w
    IN write_to_bucket(w1, cfg, id, data, now1, now2)

RECURSIVE delete_each(_, _, _)
delete_each(w, cfg, id_list) ==
    IF id_list = <<>> \/ w.raised # "" THEN w
    ELSE delete_each(delete_from_bucket(w, cfg, Head(id_list)), cfg, Tail(id_list))

delete_multi(w, cfg, id_list) ==
    LET w1 == IF cfg.delete_through THEN super_delete_multi(w, id_list) ELSE w
        w2 == delete_each(w1, cfg, id_list)
    IN IF w2.raised # "" THEN w2 ELSE delete_cache_items(w2, id_list)

cleanup_always_through(w, cfg, cutoff_timestamp, kept) ==
    super_cleanup(w, cutoff_timestamp, kept)

cleanup(w, cfg, cutoff_timestamp, kept) ==
    IF cfg.delete_through THEN super_cleanup(w, cutoff_timestamp, kept) ELSE w

(***************************************************************************)
(* State.                                                                  *)
(*   config          the constructor's arguments                           *)
(*   clock           datetime.utcnow()                                     *)
(*   nodestore_node, bucket, secondary   the three stores                  *)
(*   last            the last call made: its arguments, the stores as it   *)
(*                   found them, the calls it made to its collaborators    *)
(*                   and how it ended; last.faulted tells whether any call *)
(*                   so far has raised                                     *)
(*   history         per id, the last writes completed since the last      *)
(*                   delete of that id                                     *)
(*   ops             the number of calls made so far                       *)
(*   writers         per caller, how far its write has got when the steps  *)
(*                   of writes are taken one at a time (all idle while     *)
(*                   calls are taken whole)                                *)
(***************************************************************************)
VARIABLES config, clock, nodestore_node, bucket, secondary, last, history, ops,
          writers

vars == <<config, clock, nodestore_node, bucket, secondary, last, history, ops,
          writers>>

BucketPaths == {"", "nodes"}

Configs ==
    [delete_through : BOOLEAN, write_through : BOOLEAN, read_through : BOOLEAN,
     compression : {None, Some("zstd")}, bucket_path : BucketPaths]

\* what the legacy store holds when the backend is constructed: a node for
\* id "a", none for id "b"
LegacyRows == [i \in {"a"} |-> <<0>>]

NoCall ==
    [op |-> "", id |-> "", id_list |-> <<>>, data |-> <<>>, cutoff |-> 0,
     rows_before |-> EmptyMap, objects_before |-> EmptyMap,
     trace |-> <<>>, raised |-> "", value |-> None, faulted |-> FALSE]

Callers == {"w1", "w2"}

Idle ==
    [pc |-> "idle", id |-> "", data |-> <<>>, timestamp |-> None, first |-> FALSE,
     key |-> "", refused |-> FALSE, trace |-> <<>>, raised |-> ""]

Init ==
    /\ config \in Configs
    /\ clock = 0
    /\ nodestore_node = EmptyMap
    /\ bucket = EmptyMap
    /\ secondary = LegacyRows
    /\ last = NoCall
    /\ history = [i \in Ids |-> <<>>]
    /\ ops = 0
    /\ writers = [c \in Callers |-> Idle]

Now == World(nodestore_node, bucket, secondary)

\* the call has run to its end (returned or raised): w is the world it leaves
Ends(call, w) ==
    /\ ops < MaxOps
    /\ ops' = ops + 1
    /\ nodestore_node' = w.nodestore_node
    /\ bucket' = w.bucket
    /\ secondary' = w.secondary
    /\ last' = [call EXCEPT !.rows_before = nodestore_node, !.objects_before = bucket,
                            !.trace = w.trace, !.raised = w.raised, !.value = w.value,
                            !.faulted = last.faulted \/ w.raised # ""]
    /\ UNCHANGED <<config, writers>>

LastTwo(s) == IF Len(s) > 2 THEN Tail(s) ELSE s

Tick ==
    /\ clock < MaxClock
    /\ ops < MaxOps
    /\ clock' = clock + 1
    /\ UNCHANGED <<config, nodestore_node, bucket, secondary, last, history, ops,
                   writers>>

Write ==
    \E id \in Ids, data \in Payloads, now2 \in clock..MaxClock :
        /\ Ends([NoCall EXCEPT !.op = "_set_bytes", !.id = id, !.data = data],
                set_bytes(Now, config, id, data, clock, now2))
        /\ clock' = now2
        /\ history' = [history EXCEPT ![id] = LastTwo(Append(@,
                [data |-> data, timestamp |-> clock, key_time |-> now2,
                 created |-> id \notin DOMAIN nodestore_node]))]

Read ==
    \E id \in Ids :
        /\ Ends([NoCall EXCEPT !.op = "_get_bytes", !.id = id],
                get_bytes(Now, config, id))
        /\ UNCHANGED <<clock, history>>

Delete ==
    \E id \in Ids :
        /\ Ends([NoCall EXCEPT !.op = "delete", !.id = id],
                delete(Now, config, id))
        /\ history' = [history EXCEPT ![id] = <<>>]
        /\ UNCHANGED clock

DeleteMulti ==
    \E id_list \in IdLists :
        /\ Ends([NoCall EXCEPT !.op = "delete_multi", !.id_list = id_list],
                delete_multi(Now, config, id_list))
        /\ history' = [i \in Ids |->
                IF \E n \in DOMAIN id_list : id_list[n] = i THEN <<>> ELSE history[i]]
        /\ UNCHANGED clock

Cleanup ==
    \E cutoff_timestamp \in 0..clock, kept \in SUBSET DOMAIN secondary :
        /\ Ends([NoCall EXCEPT !.op = "cleanup", !.cutoff = cutoff_timestamp],
                cleanup(Now, config, cutoff_timestamp, kept))
        /\ UNCHANGED <<clock, history>>

Next == Tick \/ Write \/ Read \/ Delete \/ DeleteMulti \/ Cleanup

Spec == Init /\ [][Next]_vars

(***************************************************************************)
(* The write path one statement at a time, for callers that run it         *)
(* side by side, stop in the middle of it or have their put refused.       *)
(* A writer's pc names the statement it is about to run:                   *)
(*   "_set_bytes"   the pass-through to the parent (176-177)               *)
(*   "utcnow"       timestamp = datetime.utcnow() (74)                     *)
(*   "insert"       the INSERT ... ON CONFLICT DO NOTHING (75-83)          *)
(*   "key"          the encoding and the key, with its own utcnow()        *)
(*                  (112-122)                                              *)
(*   "put_object"   client.put_object (123-128)                            *)
(***************************************************************************)
PutFirst(label) ==
    CASE label = "_set_bytes" -> "key"
      [] label = "key" -> "put_object"
      [] label = "put_object" -> "utcnow"
      [] label = "utcnow" -> "insert"
      [] label = "insert" -> "done"

Following(label) ==
    CASE label = "_set_bytes" -> "utcnow"
      [] label = "utcnow" -> "insert"
      [] label = "insert" -> "key"
      [] label = "key" -> "put_object"
      [] label = "put_object" -> "done"

Running == {"_set_bytes", "utcnow", "insert", "key", "put_object"}

\* the flags the write path reads
WriteConfigs == {cfg \in Configs : ~cfg.read_through /\ ~cfg.delete_through}

\* writer self runs the statement at label: w is the world the statement
\* leaves, frame the writer's locals after it
Step(self, label, w, frame) ==
    /\ writers[self].pc = label
    /\ nodestore_node' = w.nodestore_node
    /\ bucket' = w.bucket
    /\ secondary' = w.secondary
    /\ writers' = [writers EXCEPT ![self] =
            [frame EXCEPT !.pc = IF w.raised # "" THEN "done" ELSE Following(label),
                          !.trace = @ \o w.trace,
                          !.raised = w.raised]]
    /\ UNCHANGED <<config, clock, last, history, ops>>

CallSetBytes(self) ==
    \E id \in Ids, data \in Payloads :
        /\ writers[self].pc = "idle"
        /\ writers' = [writers EXCEPT ![self] =
                [Idle EXCEPT !.pc = "_set_bytes", !.id = id, !.data = data]]
        /\ UNCHANGED <<config, clock, nodestore_node, bucket, secondary, last,
                       history, ops>>

PassThrough(self) ==
    LET f == writers[self]
    IN Step(self, "_set_bytes",
            IF config.write_through THEN super_set_bytes(Now, f.id, f.data) ELSE Now,
            f)

UtcNow(self) ==
    Step(self, "utcnow", Now, [writers[self] EXCEPT !.timestamp = Some(clock)])

Insert(self) ==
    LET f == writers[self]
    IN Step(self, "insert",
            insert_id_and_timestamp(Now, f.id, f.timestamp[1]),
            [f EXCEPT !.first = f.id \notin DOMAIN nodestore_node])

Key(self) ==
    LET f == writers[self]
    IN Step(self, "key", Now,
            [f EXCEPT !.key = construct_s3_key(config.bucket_path, f.id, clock)])

PutObject(self) ==
    LET f == writers[self]
    IN Step(self, "put_object",
            put_object(Now, f.key, Encoded(config.compression, f.data)), f)

PutObjectRefused(self) ==
    LET f == writers[self]
    IN Step(self, "put_object",
            put_object_raises(Now, f.key, Encoded(config.compression, f.data)),
            [f EXCEPT !.refused = TRUE])

\* the process of the writer dies between two statements
Crash(self) ==
    /\ writers[self].pc \in Running
    /\ writers' = [writers EXCEPT ![self].pc = "crashed"]
    /\ UNCHANGED <<config, clock, nodestore_node, bucket, secondary, last,
                   history, ops>>

Advance ==
    /\ clock < MaxClock
    /\ clock' = clock + 1
    /\ UNCHANGED <<config, nodestore_node, bucket, secondary, last, history, ops,
                   writers>>

WriterStep(self) ==
    \/ PassThrough(self)
    \/ UtcNow(self)
    \/ Insert(self)
    \/ Key(self)
    \/ PutObject(self)

InitWrites == Init /\ config \in WriteConfigs

NextWrites ==
    \/ Advance
    \/ \E self \in Callers :
          \/ CallSetBytes(self)
          \/ WriterStep(self)
          \/ PutObjectRefused(self)
          \/ Crash(self)

\* writes only, any of which may be cut short or have its put refused
SpecWrites == InitWrites /\ [][NextWrites]_vars

\* two callers have each called write for the same id, which has no index
\* entry; neither is cut short, and each keeps running while it can
InitTwoWriters ==
    /\ config \in WriteConfigs
    /\ clock = 0
    /\ nodestore_node = EmptyMap
    /\ bucket = EmptyMap
    /\ secondary = LegacyRows
    /\ last = NoCall
    /\ history = [i \in Ids |-> <<>>]
    /\ ops = 0
    /\ \E id \in Ids, data \in [Callers -> SeqsUpTo(ByteVals, 1)] :
          writers = [c \in Callers |->
                [Idle EXCEPT !.pc = "_set_bytes", !.id = id, !.data = data[c]]]

NextTwoWriters == Advance \/ \E self \in Callers : WriterStep(self)

SpecTwoWriters ==
    /\ InitTwoWriters
    /\ [][NextTwoWriters]_vars
    /\ \A self \in Callers : WF_vars(WriterStep(self))

(***************************************************************************)
(* Vocabulary of the properties.                                           *)
(***************************************************************************)
Calls(trace, names) == SelectSeq(trace, LAMBDA e : e.call \in names)

SecondaryCalls(trace) ==
    Calls(trace, {"super._set_bytes", "super._get_bytes", "super.delete",
                  "super.delete_multi", "super.cleanup"})

PrimarySteps(trace) ==
    Calls(trace, {"insert_id_and_timestamp", "fetch_timestamp", "delete_id",
                  "put_object", "get_object", "delete_object"})

KeyOf(id, timestamp) == construct_s3_key(config.bucket_path, id, timestamp)

\* the key under which the index, as the last call found it, locates id
KeyBefore(id) == KeyOf(id, last.rows_before[id])

SecondaryValue(id) == IF id \in DOMAIN secondary THEN Some(secondary[id]) ELSE None

\* read(id) issued in the current state
ReadNow(id) == get_bytes(Now, config, id)

Wrote == last.op = "_set_bytes"
ReadOp == last.op = "_get_bytes"
Deleted == last.op = "delete"
DeletedMulti == last.op = "delete_multi"

(***************************************************************************)
(* C1. Round trip: a read(id) issued right after write(id, payload) has    *)
(* completed returns exactly payload, whatever the compression setting     *)
(* and whatever the clock did during the write.                            *)
(***************************************************************************)
C1_RoundTrip ==
    Wrote /\ last.raised = "" =>
        /\ ReadNow(last.id).raised = ""
        /\ ReadNow(last.id).value = Some(last.data)

(***************************************************************************)
(* C2. delete(id) on an id that has an index entry looks up the timestamp, *)
(* deletes the blob at the key derived from (id, timestamp), deletes the   *)
(* index entry, in that order; it ends without a fault and leaves neither  *)
(* the index entry nor the blob.                                           *)
(***************************************************************************)
C2_DeleteOrder ==
    Deleted /\ last.id \in DOMAIN last.rows_before =>
        /\ last.raised = ""
        /\ PrimarySteps(last.trace) =
              << Event("fetch_timestamp", <<last.id>>),
                 Event("delete_object", <<KeyBefore(last.id)>>),
                 Event("delete_id", <<last.id>>) >>
        /\ last.id \notin DOMAIN nodestore_node
        /\ KeyBefore(last.id) \notin DOMAIN bucket

(***************************************************************************)
(* C3. read(id) for an id with no index entry returns "not found" (a       *)
(* value, not a fault) when read_through is off, and the result of the     *)
(* secondary backend's read when read_through is on.                       *)
(***************************************************************************)
C3_ReadWithoutIndexEntry ==
    ReadOp /\ last.id \notin DOMAIN last.rows_before =>
        /\ last.raised = ""
        /\ IF config.read_through
           THEN /\ SecondaryCalls(last.trace) = <<Event("super._get_bytes", <<last.id>>)>>
                /\ last.value = SecondaryValue(last.id)
           ELSE /\ SecondaryCalls(last.trace) = <<>>
                /\ last.value = None

(***************************************************************************)
(* C4. read(id) for an id whose index entry exists while no blob is at     *)
(* the derived key returns "not found" and never calls the secondary       *)
(* backend's read, even when read_through is on.                           *)
(***************************************************************************)
BlobMissing ==
    /\ ReadOp
    /\ last.id \in DOMAIN last.rows_before
    /\ KeyBefore(last.id) \notin DOMAIN last.objects_before

OnlyFlag(flag) ==
    /\ config.write_through = (flag = "write")
    /\ config.read_through = (flag = "read")
    /\ config.delete_through = (flag = "delete")

Cascaded == SecondaryCalls(last.trace) # <<>>

OpType ==
    IF Wrote THEN "write"
    ELSE IF ReadOp THEN "read"
    ELSE IF Deleted \/ DeletedMulti THEN "delete"
    ELSE "other"

PrimaryReadEmpty ==
    /\ last.id \in DOMAIN last.rows_before
    /\ \/ KeyBefore(last.id) \notin DOMAIN last.objects_before
       \/ Decoded(last.objects_before[KeyBefore(last.id)]) = <<>>

Invalidations(trace) == Calls(trace, {"_delete_cache_item", "_delete_cache_items"})

AllIndexed(id_list) == \A n \in DOMAIN id_list : id_list[n] \in DOMAIN last.rows_before

C6_CacheInvalidation ==
    /\ Deleted /\ last.id \in DOMAIN last.rows_before =>
          /\ Invalidations(last.trace) = <<Event("_delete_cache_item", <<last.id>>)>>
          /\ last.trace[Len(last.trace)].call = "_delete_cache_item"
    /\ DeletedMulti /\ AllIndexed(last.id_list) =>
          /\ Invalidations(last.trace) = <<Event("_delete_cache_items", last.id_list)>>
          /\ last.trace[Len(last.trace)].call = "_delete_cache_items"

(***************************************************************************)
(* C7. Divergence on rewrite: after write(x, p1) on day D1 (the write that *)
(* creates the index entry) followed by write(x, p2) on a later day D2,    *)
(* the index entry of x still holds the D1 timestamp, a blob exists under  *)
(* the D1 key and under the D2 key, and read(x) returns p1.                *)
(***************************************************************************)
OnDay(write, day) == DayOf(write.timestamp) = day /\ DayOf(write.key_time) = day

Rewritten(x) ==
    /\ Wrote /\ last.id = x
    /\ Len(history[x]) = 2
    /\ history[x][1].created
    /\ \E D1, D2 \in {DayOf(t) : t \in Instants} :
          D1 < D2 /\ OnDay(history[x][1], D1) /\ OnDay(history[x][2], D2)

Diverged(x) ==
    /\ x \in DOMAIN nodestore_node
    /\ nodestore_node[x] = history[x][1].timestamp
    /\ KeyOf(x, history[x][1].key_time) \in DOMAIN bucket
    /\ KeyOf(x, history[x][2].key_time) \in DOMAIN bucket
    /\ KeyOf(x, history[x][1].key_time) # KeyOf(x, history[x][2].key_time)

PutKey == Calls(last.trace, {"put_object"})[1].args[1]
Stored == bucket[PutKey]

C8_CompressionGuard ==
    Wrote /\ last.raised = "" =>
        /\ Len(Calls(last.trace, {"put_object"})) = 1
        /\ PutKey \in DOMAIN bucket
        /\ IF config.compression = None
           THEN Stored = [Body |-> last.data, ContentEncoding |-> ""]
           ELSE IF Len(ZstdEncode(last.data)) > Len(last.data)
           THEN Stored = [Body |-> last.data, ContentEncoding |-> ""]
           ELSE Stored = [Body |-> ZstdEncode(last.data), ContentEncoding |-> "zstd"]

C8_Witness ==
    /\ Wrote
    /\ config.compression = Some("zstd")
    /\ Len(ZstdEncode(last.data)) > Len(last.data)
    /\ last.data # <<>>
    /\ Stored.Body = last.data

(***************************************************************************)
(* C9. delete(id) on an id with no index entry, a second delete(id) right  *)
(* after a first one included, is reported as a fault and leaves the       *)
(* index and the bucket as they were before the call.                      *)
(***************************************************************************)
C9_DeleteWithoutIndexEntry ==
    Deleted /\ last.id \notin DOMAIN last.rows_before =>
        /\ last.raised # ""
        /\ nodestore_node = last.rows_before
        /\ bucket = last.objects_before

C9_Witness ==
    /\ Deleted
    /\ last.id \notin DOMAIN last.rows_before
    /\ DOMAIN last.rows_before # {}
    /\ DOMAIN last.objects_before # {}

(***************************************************************************)
(* C10. delete_multi(ids), when every id of ids has an index entry, ends   *)
(* without a fault, leaves none of them with an index entry or with a      *)
(* blob at its derived key, and makes one batched cache invalidation for   *)
(* ids.                                                                    *)
(***************************************************************************)
C10_DeleteMulti ==
    DeletedMulti /\ AllIndexed(last.id_list) =>
        /\ last.raised = ""
        /\ \A n \in DOMAIN last.id_list :
              /\ last.id_list[n] \notin DOMAIN nodestore_node
              /\ KeyBefore(last.id_list[n]) \notin DOMAIN bucket
        /\ Invalidations(last.trace) = <<Event("_delete_cache_items", last.id_list)>>

(***************************************************************************)
(* C11. cleanup(cutoff) leaves the primary index and the bucket as they    *)
(* were, and calls the secondary backend's cleanup, with the same cutoff,  *)
(* exactly when delete_through is set.                                     *)
(***************************************************************************)
CleanedUp == last.op = "cleanup"

C11_CleanupFrame ==
    CleanedUp =>
        /\ last.raised = ""
        /\ nodestore_node = last.rows_before
        /\ bucket = last.objects_before
        /\ PrimarySteps(last.trace) = <<>>
        /\ SecondaryCalls(last.trace) =
              IF config.delete_through
              THEN <<Event("super.cleanup", <<last.cutoff>>)>>
              ELSE <<>>

C11_Witness ==
    /\ CleanedUp
    /\ config.delete_through
    /\ last.cutoff > 0
    /\ DOMAIN nodestore_node # {}
    /\ DOMAIN bucket # {}
    /\ "a" \notin DOMAIN secondary

(***************************************************************************)
(* C12. I1: in every state reached by completed calls none of which        *)
(* raised, whatever the clock did between their steps, each id with an     *)
(* index entry has a blob at the key derived from that id and that         *)
(* entry's timestamp; in particular a write that creates the index entry   *)
(* puts its blob under the key derived from the timestamp it recorded.     *)
(***************************************************************************)
IndexedKey(id) == KeyOf(id, nodestore_node[id])

C12_IndexEntryHasBlob ==
    ~last.faulted =>
        /\ \A id \in DOMAIN nodestore_node : IndexedKey(id) \in DOMAIN bucket
        /\ Wrote /\ last.id \notin DOMAIN last.rows_before =>
              PutKey = IndexedKey(last.id)

(***************************************************************************)
(* C16. With delete_through set, delete(id) and delete_multi(ids) call    *)
(* the secondary backend's deletion before any step on the primary store;  *)
(* when the primary deletion then raises, the secondary deletion has been  *)
(* made and stays made.                                                    *)
(***************************************************************************)
Listed(id) ==
    IF Deleted THEN id = last.id
    ELSE \E n \in DOMAIN last.id_list : last.id_list[n] = id

C16_SecondaryDeletedFirst ==
    (Deleted \/ DeletedMulti) /\ config.delete_through =>
        /\ last.trace # <<>>
        /\ last.trace[1] = IF Deleted THEN Event("super.delete", <<last.id>>)
                           ELSE Event("super.delete_multi", last.id_list)
        /\ Len(SecondaryCalls(last.trace)) = 1
        /\ \A id \in Ids : Listed(id) => id \notin DOMAIN secondary

\* the only call so far: the secondary held a node for "a" before it
C16_Witness ==
    /\ ops = 1
    /\ Deleted \/ DeletedMulti
    /\ config.delete_through
    /\ Listed("a")
    /\ last.raised # ""
    /\ PrimarySteps(last.trace) # <<>>
    /\ "a" \notin DOMAIN secondary

(***************************************************************************)
(* C19. read(id), whether it returns a value, returns "not found", raises  *)
(* or falls back to the secondary backend, leaves the primary index, the   *)
(* bucket and the secondary store as they were and invalidates no cache    *)
(* entry.                                                                  *)
(***************************************************************************)
Outcome(r) ==
    IF r.raised # "" THEN "fault"
    ELSE IF Calls(r.trace, {"super._get_bytes"}) # <<>> THEN "fallback"
    ELSE IF r.value = None THEN "not found"
    ELSE "value"

ReadOnly(r) ==
    /\ r.nodestore_node = nodestore_node
    /\ r.bucket = bucket
    /\ r.secondary = secondary
    /\ Invalidations(r.trace) = <<>>
    /\ Calls(r.trace, {"insert_id_and_timestamp", "delete_id", "put_object",
                       "delete_object", "super._set_bytes", "super.delete",
                       "super.delete_multi", "super.cleanup"}) = <<>>

C19_ReadIsReadOnly ==
    /\ \A id \in Ids : ReadOnly(ReadNow(id))
    /\ ReadOp =>
          /\ nodestore_node = last.rows_before
          /\ bucket = last.objects_before
          /\ Invalidations(last.trace) = <<>>
          /\ last.trace = ReadNow(last.id).trace

C19_Witness ==
    /\ ReadOp
    /\ DOMAIN nodestore_node # {}
    /\ DOMAIN secondary # {}
    /\ Outcome(ReadNow(last.id)) = "fallback"
    /\ {Outcome(ReadNow(id)) : id \in Ids} = {"fallback", "fault"}

(***************************************************************************)
(* C17. The decoding applied by a read is chosen by the content-encoding   *)
(* tag of the blob and not by the reader's compression setting: the blob   *)
(* a write has put, once located, is read back as the written payload by   *)
(* a backend with the other compression setting as well as by one with     *)
(* the same; and a blob whose tag names no registered codec, the empty     *)
(* tag included, is returned as its stored bytes.                          *)
(***************************************************************************)
OtherSetting(cfg) ==
    [cfg EXCEPT !.compression = IF @ = None THEN Some("zstd") ELSE None]

UnregisteredTags == {"", "gzip", "ZSTD"}

Retagged(tag) ==
    World(nodestore_node,
          Put(bucket, PutKey, [Stored EXCEPT !.ContentEncoding = tag]),
          secondary)

\* the index locates the blob the last write has put
Located == Wrote /\ last.raised = "" /\ IndexedKey(last.id) = PutKey

BlobsOf(objects, id) == {KeyOf(id, t) : t \in Instants} \cap DOMAIN objects

\* the last call is the second of two writes of x, the first of which found
\* neither an index entry nor a blob of x, and both ran within one day
SameDayRewrite(x) ==
    /\ Wrote /\ last.id = x
    /\ Len(history[x]) = 2
    /\ history[x][1].created
    /\ BlobsOf(last.objects_before, x) = {KeyOf(x, history[x][1].key_time)}
    /\ \E D \in {DayOf(t) : t \in Instants} :
          OnDay(history[x][1], D) /\ OnDay(history[x][2], D)

OneBlobOfSecondWrite(x) ==
    /\ BlobsOf(bucket, x) = {IndexedKey(x)}
    /\ DayOf(nodestore_node[x]) = DayOf(history[x][2].key_time)
    /\ bucket[IndexedKey(x)] = Encoded(config.compression, history[x][2].data)

IndexThenBlob(trace) ==
    LET steps == Calls(trace, {"insert_id_and_timestamp", "put_object"})
    IN /\ Len(steps) <= 2
       /\ Len(steps) >= 1 => steps[1].call = "insert_id_and_timestamp"
       /\ Len(steps) = 2 => steps[2].call = "put_object"

C13_NoBlobWithoutIndexEntry ==
    /\ \A k \in DOMAIN bucket :
          \E id \in DOMAIN nodestore_node : k \in BlobsOf(bucket, id)
    /\ \A c \in Callers : IndexThenBlob(writers[c].trace)

C13_Witness ==
    \E c, d \in Callers :
        /\ writers[c].pc = "crashed"
        /\ writers[c].id \in DOMAIN nodestore_node
        /\ writers[c].first
        /\ writers[c].timestamp = Some(nodestore_node[writers[c].id])
        /\ BlobsOf(bucket, writers[c].id) = {}
        /\ writers[d].pc = "done"
        /\ BlobsOf(bucket, writers[d].id) # {}

(***************************************************************************)
(* C14. When the blob put of write(id, data) is refused after the index    *)
(* insert has succeeded, the write ends with the fault the put raised,     *)
(* the index entry of id stays, and the write has created no blob: the     *)
(* put is not tried again and the index insert is not undone.              *)
(***************************************************************************)
PutBy(c) ==
    /\ ~writers[c].refused
    /\ Calls(writers[c].trace, {"put_object"}) # <<>>

C14_PutRefused ==
    \A c \in Callers :
        writers[c].refused =>
            /\ writers[c].pc = "done"
            /\ writers[c].raised = "ClientError"
            /\ writers[c].id \in DOMAIN nodestore_node
            /\ Len(Calls(writers[c].trace, {"insert_id_and_timestamp"})) = 1
            /\ Len(Calls(writers[c].trace, {"put_object"})) = 1
            /\ Calls(writers[c].trace, {"delete_id", "delete_object"}) = <<>>
            /\ writers[c].key \in DOMAIN bucket =>
                  \E d \in Callers \ {c} : PutBy(d) /\ writers[d].key = writers[c].key

C14_Witness ==
    \E c \in Callers :
        /\ writers[c].refused
        /\ writers[c].first
        /\ writers[c].timestamp = Some(nodestore_node[writers[c].id])
        /\ bucket = EmptyMap

(***************************************************************************)
(* C15. Two writes of the same id, which had no index entry, run side by   *)
(* side with their steps interleaved in any order: neither waits for the   *)
(* other and both end; after that the index holds exactly one entry for    *)
(* the id, with the timestamp of the writer whose insert ran first, and a  *)
(* blob exists at the key each writer derived (two keys when the writers   *)
(* derived different days).                                                *)
(***************************************************************************)
BothDone == \A c \in Callers : writers[c].pc = "done"

NeitherWaits ==
    \A c \in Callers : writers[c].pc \in Running => ENABLED WriterStep(c)

OneEntryTwoBlobs ==
    \E x \in Ids, c \in Callers :
        /\ \A d \in Callers : writers[d].id = x /\ writers[d].raised = ""
        /\ writers[c].first
        /\ \A d \in Callers \ {c} : ~writers[d].first
        /\ DOMAIN nodestore_node = {x}
        /\ nodestore_node[x] = writers[c].timestamp[1]
        /\ BlobsOf(bucket, x) = {writers[d].key : d \in Callers}

C15_ConcurrentWrites ==
    /\ [](NeitherWaits /\ (BothDone => OneEntryTwoBlobs))
    /\ <>BothDone

\* the two writers have derived keys of different days
C15_Witness ==
    /\ BothDone
    /\ OneEntryTwoBlobs
    /\ Cardinality(DOMAIN bucket) = 2
    /\ \E c, d \in Callers : writers[c].data # writers[d].data

====
